---- MODULE Spec2Model ----
(***************************************************************************)
(* Read-through user cache of IterableAPIService.                          *)
(*                                                                         *)
(* Two module-level MyLRUCache instances (caches.userByEmail and           *)
(* caches.userByUserId) sit in front of the two remote lookups             *)
(* fetchUserByEmail and fetchUserByUserId.  MyLRUCache wraps the           *)
(* lru-cache package (^7.14.1); its has/get/set are modelled here by what  *)
(* that package does: a list of entries in recency order, an optional      *)
(* per-entry time to live checked lazily on has/get, eviction of the       *)
(* least recently used entry on insertion at capacity.                     *)
(*                                                                         *)
(* Specifications:                                                         *)
(*   Spec       the service: concurrent lookups over the two caches        *)
(*   CacheSpec  one MyLRUCache instance driven directly by has/get/set     *)
(*   ApiSpec    lookups of one caller, with fetchUserIdByEmail, beside     *)
(*              putUserData calls of another                               *)
(*   AliasSpec  lookups of one caller who writes to the records it is      *)
(*              handed                                                     *)
(*   TenantSpec lookups by email through two instances of the service,     *)
(*              built with the API keys of two projects                    *)
(***************************************************************************)
EXTENDS Integers, Sequences, FiniteSets, TLC

VARIABLES
    caches,     \* the module-level object: [userByEmail, userByUserId]
    now,        \* the clock lru-cache reads (performance.now(), in ms)
    lookup,     \* per async call in flight: where it is suspended
    ret,        \* the lookup that has just completed: what it was and returned
    watch,      \* history of one entry: first record fetched, time of last set
    inner,      \* the callers whose lookup was made by fetchUserIdByEmail
    cache,      \* CacheSpec: the MyLRUCache instance under test
    recency,    \* CacheSpec history: cached keys, oldest access first
    trace,      \* CacheSpec history: the calls so far, while a known scenario
    written,    \* CacheSpec history: per cached key, value and time of last set
    asked       \* CacheSpec history: the time to live the constructor was given

vars == <<caches, now, lookup, ret, watch, inner, cache, recency, trace, written, asked>>

svcVars == <<caches, lookup, ret, watch, inner>>
tstVars == <<cache, recency, trace, written, asked>>

-----------------------------------------------------------------------------
(* Bounds of the model *)

\* entries each of the service's caches may hold; stands for max: 1000
Max == 1

\* waits of more than five minutes the service's clock may go through
MaxWaits == 1

\* milliseconds the clock of the cache under test may advance
MaxTicks == 4

\* the time to live, in ms, given to the cache under test
TestTtl == 2

\* the time to live the service asks for: 1000 * 60 * 5 ms
FiveMinutes == 1000 * 60 * 5

-----------------------------------------------------------------------------
(* JavaScript values *)

Undefined == [t |-> "undefined"]
Null      == [t |-> "null"]
Str(s)    == [t |-> "string", s |-> s]
Num(n)    == [t |-> "number", n |-> n]
\* an object is its set of <<field, value>> pairs
Obj(f)    == [t |-> "object", f |-> f]

\* a promise rejected with, or a statement throwing, the error e
Thrown(e) == [t |-> "thrown", e |-> e]

typeof(v) == IF v.t = "null" THEN "object" ELSE v.t

truthy(v) ==
    CASE v.t = "undefined" -> FALSE
      [] v.t = "null"      -> FALSE
      [] v.t = "string"    -> v.s # ""
      [] v.t = "number"    -> v.n # 0
      [] OTHER             -> TRUE

\* o.name; the caller makes sure o is neither null nor undefined
Field(o, name) ==
    IF o.t = "object" /\ \E p \in o.f : p[1] = name
      THEN (CHOOSE p \in o.f : p[1] = name)[2]
      ELSE Undefined

\* o.name as the runtime evaluates it: a TypeError on null and undefined
Member(o, name) ==
    IF o.t \in {"null", "undefined"} THEN Thrown("TypeError") ELSE Field(o, name)

\* Object.keys(o).length
NumKeys(o) == IF o.t = "object" THEN Cardinality(o.f) ELSE 0

\* lodash merge(dst, src) for flat sources: src's fields override dst's;
\* a null or undefined source leaves dst as it is
merge(dst, src) ==
    IF src.t # "object" THEN dst
    ELSE Obj({p \in dst.f : ~\E q \in src.f : q[1] = p[1]} \cup src.f)

-----------------------------------------------------------------------------
(* TypeAssertions *)

\* the strings emailRegExp matches
WellFormedEmails == {"a@x.io", "b@x.io"}

emailRegExp(s) == s \in WellFormedEmails

goodString(input) ==
    truthy(input) /\ typeof(input) = "string" /\ input.s # ""

badString(input) == ~goodString(input)

goodEmail(input) ==
    IF goodString(input) THEN emailRegExp(input.s) ELSE FALSE

\* variant: any non-empty string passes for an email
badEmail_anyString(input) == ~goodString(input)

badEmail(input) == ~goodEmail(input)

-----------------------------------------------------------------------------
(* lru-cache, as MyLRUCache uses it.  A cache is [max, ttl, list]; list    *)
(* holds the entries [k, v, start, ttl] from the least recently used       *)
(* (head) to the most recently used (tail).                                *)

\* new LRU(options): this.ttl = ttl || maxAge || 0; an option left
\* undefined reads as 0
LRU(options) ==
    [max  |-> options.max,
     ttl  |-> IF options.ttl # 0 THEN options.ttl ELSE options.maxAge,
     list |-> <<>>]

\* position of key k in the list, 0 when k has no entry (keyMap.get)
indexOf(c, k) ==
    IF \E i \in 1..Len(c.list) : c.list[i].k = k
      THEN CHOOSE i \in 1..Len(c.list) : c.list[i].k = k
      ELSE 0

without(list, i) ==
    [j \in 1..(Len(list) - 1) |-> IF j < i THEN list[j] ELSE list[j + 1]]

\* isStale(index): only entries that track a ttl ever go stale
isStale(e, t) == e.ttl # 0 /\ e.start # 0 /\ t - e.start > e.ttl

\* moveToTail(index): the entry becomes the most recently used
moveToTail(list, i) == Append(without(list, i), list[i])

\* setItemTTL(index, ttl, start): without ttl tracking no start is kept
stamped(c, k, v, t) ==
    [k |-> k, v |-> v, start |-> IF c.ttl # 0 THEN t ELSE 0, ttl |-> c.ttl]

\* variant: drops the tail, the most recently used entry
evict_newest(list) == SubSeq(list, 1, Len(list) - 1)

\* evict(): drops the head of the list, the least recently used entry
evict(list) == Tail(list)

LRU_has(c, k, t) ==
    LET i == indexOf(c, k) IN i # 0 /\ ~isStale(c.list[i], t)

\* get(k): [c |-> the cache afterwards, v |-> the value returned].
\* A stale entry is deleted and undefined returned; a live entry moves to
\* the tail
LRU_get(c, k, t) ==
    LET i == indexOf(c, k) IN
    IF i = 0 THEN [c |-> c, v |-> Undefined]
    ELSE IF isStale(c.list[i], t)
      THEN [c |-> [c EXCEPT !.list = without(c.list, i)], v |-> Undefined]
      ELSE [c |-> [c EXCEPT !.list = moveToTail(c.list, i)], v |-> c.list[i].v]

\* peek(k): the value without any change of the cache
LRU_peek(c, k, t) ==
    LET i == indexOf(c, k) IN
    IF i = 0 \/ isStale(c.list[i], t)
      THEN [c |-> c, v |-> Undefined]
      ELSE [c |-> c, v |-> c.list[i].v]

\* variant: an addition never evicts
LRU_set_noEvict(c, k, v, t) ==
    LET i == indexOf(c, k) IN
    IF i # 0
      THEN [c EXCEPT !.list = Append(without(c.list, i), stamped(c, k, v, t))]
      ELSE [c EXCEPT !.list = Append(c.list, stamped(c, k, v, t))]

\* set(k, v): an update moves the entry to the tail and restarts its ttl;
\* an addition at size = max first evicts the head
LRU_set(c, k, v, t) ==
    LET i == indexOf(c, k) IN
    IF i # 0
      THEN [c EXCEPT !.list = Append(without(c.list, i), stamped(c, k, v, t))]
      ELSE LET room == IF c.max # 0 /\ Len(c.list) = c.max
                         THEN evict(c.list) ELSE c.list
           IN [c EXCEPT !.list = Append(room, stamped(c, k, v, t))]

-----------------------------------------------------------------------------
(* MyLRUCache *)

\* an option the caller did not pass is undefined, read as 0
Opt(o, name) == IF name \in DOMAIN o THEN o[name] ELSE 0

\* constructor({ max, maxAge }): only max and maxAge are taken from the
\* argument; the options handed on are { max, maxAge, ttl: maxAge }
MyLRUCache(o) ==
    LET max    == Opt(o, "max")
        maxAge == Opt(o, "maxAge")
    IN LRU([max |-> max, maxAge |-> maxAge, ttl |-> maxAge])

\* variant: the key is not looked at
has_nonEmpty(c, email, t) == Len(c.list) > 0

has(c, email, t) == LRU_has(c, email, t)

\* variant: has counts as a use, like get
has_after_promote(c, email, t) == LRU_get(c, email, t).c

\* the cache after has(email): updateAgeOnHas is not set, so the entry,
\* live or stale, is left where it is
has_after(c, email, t) == c

get_peek(c, key, t) == LRU_peek(c, key, t)

get(c, key, t) == LRU_get(c, key, t)

\* variant: the new entry is appended, the old one left in place
set_append(c, key, value, t) ==
    [c EXCEPT !.list = Append(c.list, stamped(c, key, value, t))]

\* variant: a key already present keeps its entry
set_ifAbsent(c, key, value, t) ==
    IF indexOf(c, key) # 0 THEN c ELSE LRU_set(c, key, value, t)

set(c, key, value, t) == LRU_set(c, key, value, t)

\* observers of a cache
Keys(c) == {c.list[i].k : i \in 1..Len(c.list)}
Size(c) == Len(c.list)
ValueOf(c, k) == c.list[indexOf(c, k)].v

-----------------------------------------------------------------------------
(* The service: module state and the values that flow through it *)

Procs == {"p1", "p2"}

CacheNames == {"userByEmail", "userByUserId"}

\* variant: one cache for both lookups
CacheOf_shared(fn) == "userByEmail"

\* the cache each lookup reads and writes
CacheOf(fn) ==
    IF fn = "fetchUserByEmail" THEN "userByEmail" ELSE "userByUserId"

\* arguments the callers pass
EmailArgs  == {Str("a@x.io"), Str("b@x.io"), Str("u1"), Str(""), Null}
UserIdArgs == {Str("u1"), Str("a@x.io"), Str(""), Num(42)}

\* user records the remote directory may hold
R1 == Obj({<<"userId", Str("u1")>>})
R2 == Obj({<<"userId", Str("u1")>>, <<"name", Str("n")>>})
Records == {R1, R2}
EmptyObject == Obj({})

\* content-type headers of a response
ContentTypes == {"application/json", "application/json; charset=utf-8", "text/html"}

\* what response.json() may resolve to
JsonBodies ==
    {Null, Obj({<<"msg", Str("not found")>>}),
     Obj({<<"user", Null>>}), Obj({<<"user", EmptyObject>>}),
     Obj({<<"user", Str("x")>>}),
     Obj({<<"user", R1>>}), Obj({<<"user", R2>>})}

Idle == [pc |-> "idle", fn |-> "", key |-> ""]

\* how a remote call ended: "network" (fetch rejected), "notjson" (another
\* content type), "parse" (response.json() rejected) or "json" with the
\* body; "none" when no remote call was made
Outcome(kind, json) == [kind |-> kind, json |-> json]
NoOutcome == Outcome("none", Undefined)

\* What is known of a completed lookup: the function, its argument, the
\* value returned, whether it ended as "invalid", as a "hit" or after a
\* "remote" call, how that call ended, and the key its set pushed out of
\* the cache ("" when none)
NoRet == [fn |-> "", arg |-> Undefined, value |-> Undefined,
          path |-> "", outcome |-> NoOutcome, evicted |-> ""]

Returned(fn, arg, value, path, outcome, evicted) ==
    [fn |-> fn, arg |-> arg, value |-> value, path |-> path,
     outcome |-> outcome, evicted |-> evicted]

\* The history follows one entry, Watched: since the key was last absent
\* from its cache, the first non-empty record a completed lookup fetched
\* for it, the record of the last set, the time of the last set, and
\* whether a putUserData for the key has resolved since the last set.
Watched == [fn |-> "fetchUserByEmail", w |-> "userByEmail", k |-> "a@x.io"]

NoWatch == [first |-> Undefined, last |-> Undefined, at |-> 0, put |-> FALSE]

Written(wt, w, k, user, t) ==
    IF w = Watched.w /\ k = Watched.k
      THEN [first |-> IF wt.first = Undefined /\ NumKeys(user) > 0
                        THEN user ELSE wt.first,
            last |-> user,
            at |-> t,
            put |-> FALSE]
      ELSE wt

Kept(wt, cs) ==
    IF Watched.k \notin Keys(cs[Watched.w]) THEN NoWatch ELSE wt

\* what the history keeps of a set
NoWrite == [v |-> Undefined, at |-> 0]

Init ==
    /\ caches = [userByUserId |-> MyLRUCache([max |-> Max, ttl |-> FiveMinutes]),
                 userByEmail  |-> MyLRUCache([max |-> Max, ttl |-> FiveMinutes])]
    /\ now = 1
    /\ lookup = [p \in Procs |-> Idle]
    /\ ret = NoRet
    /\ watch = NoWatch
    /\ inner = {}
    /\ cache = MyLRUCache([max |-> Max])
    /\ recency = <<>>
    /\ trace = <<>>
    /\ written = <<>>
    /\ asked = 0

-----------------------------------------------------------------------------
(* fetchUserByEmail / fetchUserByUserId, one action per stretch of code    *)
(* between two suspension points                                           *)

\* the call up to its first await: validation, the cache check, and either
\* the return of the cached value or the start of the remote call
Call(p, fn, arg, bad) ==
    LET w == CacheOf(fn) IN
    /\ ret = NoRet
    /\ lookup[p].pc = "idle"
    /\ IF bad
         THEN /\ ret' = Returned(fn, arg, Null, "invalid", NoOutcome, "")
              /\ UNCHANGED <<caches, lookup, watch>>
       ELSE IF has(caches[w], arg.s, now)
         THEN LET g == get(caches[w], arg.s, now)
                  cs == [caches EXCEPT ![w] = g.c]
              IN /\ caches' = cs
                 /\ ret' = Returned(fn, arg, g.v, "hit", NoOutcome, "")
                 /\ watch' = Kept(watch, cs)
                 /\ UNCHANGED lookup
       ELSE /\ lookup' = [lookup EXCEPT ![p] =
                             [pc |-> "fetch", fn |-> fn, key |-> arg.s]]
            /\ UNCHANGED <<caches, ret, watch>>
    /\ UNCHANGED <<now, tstVars>>

fetchUserByEmail(p) ==
    /\ \E email \in EmailArgs :
         Call(p, "fetchUserByEmail", email, badEmail(email))
    /\ UNCHANGED inner

fetchUserByUserId(p) ==
    /\ \E userId \in UserIdArgs :
         Call(p, "fetchUserByUserId", userId, badString(userId))
    /\ UNCHANGED inner

\* the keys a step dropped from cache w other than by overwriting k
Dropped(w, k, cs) ==
    LET gone == Keys(caches[w]) \ (Keys(cs[w]) \cup {k})
    IN IF gone = {} THEN "" ELSE CHOOSE x \in gone : TRUE

\* the lookup ends and hands value to its caller
Finish(p, value, outcome, evicted) ==
    /\ ret' = Returned(lookup[p].fn, Str(lookup[p].key), value, "remote",
                       outcome, evicted)
    /\ lookup' = [lookup EXCEPT ![p] = Idle]

\* variant: the error goes on to the caller
catch_rethrow(e) == Thrown(e)

\* catch (e) { logger.warn("Failed to fetch", e); return null; }
catch(e) == Null

\* await fetch(...) rejects: the catch block returns null
FetchRejected(p) ==
    /\ ret = NoRet
    /\ lookup[p].pc = "fetch"
    /\ Finish(p, catch("fetch"), Outcome("network", Undefined), "")
    /\ UNCHANGED <<caches, now, watch, inner, tstVars>>

\* await fetch(...) resolves: a JSON response goes on to response.json(),
\* any other content type is logged and the empty user returned
FetchResolved(p) ==
    /\ ret = NoRet
    /\ lookup[p].pc = "fetch"
    /\ \E responseContentType \in ContentTypes :
         IF responseContentType = "application/json"
           THEN /\ lookup' = [lookup EXCEPT ![p].pc = "json"]
                /\ UNCHANGED ret
           ELSE Finish(p, EmptyObject, Outcome("notjson", Undefined), "")
    /\ UNCHANGED <<caches, now, watch, inner, tstVars>>

\* await response.json() rejects: the catch block returns null
JsonRejected(p) ==
    /\ ret = NoRet
    /\ lookup[p].pc = "json"
    /\ Finish(p, catch("json"), Outcome("parse", Undefined), "")
    /\ UNCHANGED <<caches, now, watch, inner, tstVars>>

\* variant: the write is not guarded
cacheable_always(field) == TRUE

\* the test guarding the write: typeof json.user === "object"
cacheable(field) == typeof(field) = "object"

\* await response.json() resolves with json
JsonResolved(p) ==
    /\ ret = NoRet
    /\ lookup[p].pc = "json"
    /\ \E json \in JsonBodies :
         LET w == CacheOf(lookup[p].fn)
             k == lookup[p].key
         IN
         IF json.t \in {"null", "undefined"}
           THEN \* json.user throws a TypeError, caught below
                /\ Finish(p, catch("TypeError"), Outcome("json", json), "")
                /\ UNCHANGED <<caches, watch>>
         ELSE IF cacheable(Field(json, "user"))
           THEN LET user == merge(EmptyObject, Field(json, "user"))
                    cs == [caches EXCEPT ![w] = set(caches[w], k, user, now)]
                IN /\ caches' = cs
                   /\ watch' = Kept(Written(watch, w, k, user, now), cs)
                   /\ Finish(p, user, Outcome("json", json), Dropped(w, k, cs))
         ELSE /\ Finish(p, EmptyObject, Outcome("json", json), "")
              /\ UNCHANGED <<caches, watch>>
    /\ UNCHANGED <<now, inner, tstVars>>

\* The caller takes the value its call returned.  Its continuation is
\* queued when the call settles, so it runs before any further response
\* or call is handled; it changes nothing but ret.  A lookup made by
\* fetchUserIdByEmail returns to fetchUserIdByEmail instead.
Return ==
    /\ ret # NoRet
    /\ \A p \in inner : lookup[p].pc # "idle"
    /\ ret' = NoRet
    /\ UNCHANGED <<caches, now, lookup, watch, inner, tstVars>>

\* More than five minutes pass: any two events of the service are either
\* at the same instant or more than the requested ttl apart.
Wait ==
    /\ ret = NoRet
    /\ now < 1 + MaxWaits * (FiveMinutes + 1)
    /\ now' = now + FiveMinutes + 1
    /\ UNCHANGED <<svcVars, tstVars>>

Next ==
    \/ \E p \in Procs : fetchUserByEmail(p)
    \/ \E p \in Procs : fetchUserByUserId(p)
    \/ \E p \in Procs : FetchRejected(p)
    \/ \E p \in Procs : FetchResolved(p)
    \/ \E p \in Procs : JsonRejected(p)
    \/ \E p \in Procs : JsonResolved(p)
    \/ Return
    \/ Wait

Spec == Init /\ [][Next]_vars

-----------------------------------------------------------------------------
(* fetchUserIdByEmail and putUserData.  One caller makes the lookups,      *)
(* another the updates, so that an update may fall anywhere between the    *)
(* steps of a lookup.                                                      *)

Lookers == {"p1"}
Updaters == {"p2"}

\* const user = await this.fetchUserByEmail(email), up to the await
fetchUserIdByEmail(p) ==
    /\ \E email \in EmailArgs :
         Call(p, "fetchUserByEmail", email, badEmail(email))
    /\ inner' = inner \cup {p}

\* fetchUserIdByEmail after the await: return user.userId
IdResume(p) ==
    /\ ret # NoRet
    /\ p \in inner /\ lookup[p].pc = "idle"
    /\ ret' = Returned("fetchUserIdByEmail", ret.arg,
                       Member(ret.value, "userId"), ret.path, ret.outcome, "")
    /\ inner' = inner \ {p}
    /\ UNCHANGED <<caches, now, lookup, watch, tstVars>>

\* arguments of putUserData; dataFields only travels in the request body
PutEmails == {Undefined, Str("a@x.io"), Str("u1")}
PutUserIds == {Undefined, Str("u1")}

\* what the update endpoint may answer
PutBodies == {Obj({<<"code", Str("Success")>>}), Obj({<<"code", Str("BadParams")>>})}

PutArg(email, userId) == Obj({<<"email", email>>, <<"userId", userId>>})

\* variant: an update drops the user's entries
afterUpdate_invalidate(cs, arg) ==
    [w \in CacheNames |->
        LET k == Field(arg, IF w = "userByEmail" THEN "email" ELSE "userId")
            i == IF k.t = "string" THEN indexOf(cs[w], k.s) ELSE 0
        IN IF i = 0 THEN cs[w] ELSE [cs[w] EXCEPT !.list = without(cs[w].list, i)]]

\* the caches after putUserData(arg): no statement of it names them
afterUpdate(cs, arg) == cs

\* putUserData up to its first await: the checks of the arguments, and the
\* POST of the payload
putUserData(p) ==
    /\ ret = NoRet
    /\ lookup[p].pc = "idle"
    /\ \E email \in PutEmails, userId \in PutUserIds :
         IF \/ email = Undefined /\ userId = Undefined
            \/ /\ userId \in {Undefined, Null}
               /\ goodString(email) /\ ~emailRegExp(email.s)
           THEN /\ ret' = Returned("putUserData", PutArg(email, userId), Null,
                                   "invalid", NoOutcome, "")
                /\ UNCHANGED lookup
           ELSE /\ lookup' = [lookup EXCEPT ![p] =
                                 [pc |-> "put", fn |-> "putUserData",
                                  key |-> "", arg |-> PutArg(email, userId)]]
                /\ UNCHANGED ret
    /\ UNCHANGED <<caches, now, watch, inner, tstVars>>

\* await fetch(...) resolves
PutFetchResolved(p) ==
    /\ ret = NoRet
    /\ lookup[p].pc = "put"
    /\ lookup' = [lookup EXCEPT ![p].pc = "put_json"]
    /\ UNCHANGED <<caches, now, ret, watch, inner, tstVars>>

\* await fetch(...) or await response.json() rejects: logged, null returned
PutRejected(p) ==
    /\ ret = NoRet
    /\ lookup[p].pc \in {"put", "put_json"}
    /\ ret' = Returned("putUserData", lookup[p].arg, Null, "remote",
                       Outcome(IF lookup[p].pc = "put" THEN "network" ELSE "parse",
                               Undefined), "")
    /\ lookup' = [lookup EXCEPT ![p] = Idle]
    /\ UNCHANGED <<caches, now, watch, inner, tstVars>>

\* await response.json() resolves: its value is returned
PutJsonResolved(p) ==
    /\ ret = NoRet
    /\ lookup[p].pc = "put_json"
    /\ \E json \in PutBodies :
         ret' = Returned("putUserData", lookup[p].arg, json, "remote",
                         Outcome("json", json), "")
    /\ caches' = afterUpdate(caches, lookup[p].arg)
    /\ watch' = IF /\ Field(lookup[p].arg, "email") = Str(Watched.k)
                   /\ Watched.k \in Keys(caches'[Watched.w])
                  THEN [watch EXCEPT !.put = TRUE]
                  ELSE Kept(watch, caches')
    /\ lookup' = [lookup EXCEPT ![p] = Idle]
    /\ UNCHANGED <<now, inner, tstVars>>

ApiNext ==
    \/ \E p \in Lookers : fetchUserByEmail(p)
    \/ \E p \in Lookers : fetchUserByUserId(p)
    \/ \E p \in Lookers : fetchUserIdByEmail(p)
    \/ \E p \in Lookers : IdResume(p)
    \/ \E p \in Lookers : FetchRejected(p)
    \/ \E p \in Lookers : FetchResolved(p)
    \/ \E p \in Lookers : JsonRejected(p)
    \/ \E p \in Lookers : JsonResolved(p)
    \/ \E p \in Updaters : putUserData(p)
    \/ \E p \in Updaters : PutFetchResolved(p)
    \/ \E p \in Updaters : PutRejected(p)
    \/ \E p \in Updaters : PutJsonResolved(p)
    \/ Return

ApiSpec == Init /\ [][ApiNext]_vars

-----------------------------------------------------------------------------
(* A caller that writes to the record a lookup handed it.  The lookup      *)
(* returns the object it passed to set, and get returns the object the     *)
(* cache holds: cache and caller share one object.                         *)

\* the field a caller writes
Note == <<"name", Str("m")>>

\* the object returned by the lookup is the one its cache holds
Aliased(r) ==
    \/ r.path = "hit"
    \/ /\ r.path = "remote" /\ r.outcome.kind = "json"
       /\ r.outcome.json.t = "object"
       /\ cacheable(Field(r.outcome.json, "user"))

\* user.name = "m", by the caller, on the object it was handed
CallerWrites ==
    /\ ret # NoRet
    /\ ret.fn \in {"fetchUserByEmail", "fetchUserByUserId"}
    /\ ret.value.t = "object"
    /\ Note \notin ret.value.f
    /\ LET changed == merge(ret.value, Obj({Note}))
           w == CacheOf(ret.fn)
           i == indexOf(caches[w], ret.arg.s)
       IN /\ ret' = [ret EXCEPT !.value = changed]
          /\ caches' = IF Aliased(ret)
                         THEN [caches EXCEPT ![w].list[i].v = changed]
                         ELSE caches
    /\ UNCHANGED <<now, lookup, watch, inner, tstVars>>

AliasNext ==
    \/ \E p \in Lookers : fetchUserByEmail(p)
    \/ \E p \in Lookers : fetchUserByUserId(p)
    \/ \E p \in Lookers : FetchRejected(p)
    \/ \E p \in Lookers : FetchResolved(p)
    \/ \E p \in Lookers : JsonRejected(p)
    \/ \E p \in Lookers : JsonResolved(p)
    \/ CallerWrites
    \/ Return

AliasSpec == Init /\ [][AliasNext]_vars

-----------------------------------------------------------------------------
(* Two instances of IterableAPIService.  Each caller has its own instance, *)
(* built with the API key of its own project; the remote answers a         *)
(* request from the directory of the project whose key the request         *)
(* carries.  The caches are module-level: both instances use the one       *)
(* caches object.                                                          *)

\* new IterableAPIService(config): this.#apiKey of the caller's instance
apiKey(p) == IF p = "p1" THEN "keyA" ELSE "keyB"

\* get #headers(): what every request of the instance carries
headers(p) ==
    [h \in {"accept", "api-key"} |->
        IF h = "accept" THEN "application/json; charset=utf-8" ELSE apiKey(p)]

\* the user record each project holds
Directory(key) == IF key = "keyA" THEN R1 ELSE R2

\* a response that carries a user record carries the one of the project
\* the request was made for
Answers(h, outcome) ==
    (/\ outcome.kind = "json" /\ outcome.json.t = "object"
     /\ Field(outcome.json, "user") \in Records)
        => Field(outcome.json, "user") = Directory(h["api-key"])

\* await response.json() resolves, for a request sent with headers(p)
TenantJsonResolved(p) ==
    /\ JsonResolved(p)
    /\ Answers(headers(p), ret'.outcome)

TenantNext ==
    \/ \E p \in Procs : fetchUserByEmail(p)
    \/ \E p \in Procs : FetchRejected(p)
    \/ \E p \in Procs : FetchResolved(p)
    \/ \E p \in Procs : JsonRejected(p)
    \/ \E p \in Procs : TenantJsonResolved(p)
    \/ Return

TenantSpec == Init /\ [][TenantNext]_vars

-----------------------------------------------------------------------------
(* One MyLRUCache instance driven directly: any interleaving of has, get   *)
(* and set over three keys, with the clock advancing 1 ms at a time        *)

TestKeys == {"a", "b", "c"}
TestValues == {Num(1), Num(2), Num(3)}

\* constructor arguments: the time to live passed as maxAge, as ttl, or
\* not at all
TestOptions ==
    {[max |-> m, maxAge |-> TestTtl] : m \in {1, 2}}
      \cup {[max |-> m, ttl |-> TestTtl] : m \in {1, 2}}
      \cup {[max |-> m] : m \in {1, 2}}

Op(name, k, v) == [op |-> name, k |-> k, v |-> v]

\* call sequences the history recognises, from construction
ScenarioPromote ==
    <<Op("set", "a", Num(1)), Op("set", "b", Num(2)),
      Op("get", "a", Undefined), Op("set", "c", Num(3))>>
ScenarioOverwrite ==
    <<Op("set", "a", Num(1)), Op("set", "b", Num(2)),
      Op("set", "a", Num(3)), Op("set", "c", Num(1))>>
ScenarioTwice ==
    <<Op("set", "a", Num(1)), Op("set", "a", Num(1))>>
ScenarioHas ==
    <<Op("set", "a", Num(1)), Op("set", "b", Num(2)),
      Op("has", "a", Undefined), Op("set", "c", Num(3))>>
Scenarios == {ScenarioPromote, ScenarioOverwrite, ScenarioTwice, ScenarioHas}

Off == <<Op("off", "", Undefined)>>

IsPrefix(s, t) == Len(s) <= Len(t) /\ \A i \in 1..Len(s) : s[i] = t[i]

Traced(tr, o) ==
    IF \E sc \in Scenarios : IsPrefix(Append(tr, o), sc)
      THEN Append(tr, o) ELSE Off

\* keys of c in the order of their last use, k being used now when used
Used(rec, k, used, c) ==
    LET others == SelectSeq(rec, LAMBDA x : x # k /\ x \in Keys(c))
        self   == SelectSeq(rec, LAMBDA x : x = k /\ x \in Keys(c))
    IN IF used /\ k \in Keys(c) THEN Append(others, k)
       ELSE IF rec = <<>> THEN <<>>
       ELSE SelectSeq(rec, LAMBDA x : x \in Keys(c))

\* the sets so far, of the keys c still holds
Sets(wr, c) == [k \in Keys(c) |-> wr[k]]

\* the time to live a constructor argument asks for, 0 when it asks for none
AskedTtl(o) == IF Opt(o, "ttl") # 0 THEN Opt(o, "ttl") ELSE Opt(o, "maxAge")

CacheInit ==
    /\ caches = [userByUserId |-> MyLRUCache([max |-> Max, ttl |-> FiveMinutes]),
                 userByEmail  |-> MyLRUCache([max |-> Max, ttl |-> FiveMinutes])]
    /\ now = 1
    /\ lookup = [p \in Procs |-> Idle]
    /\ ret = NoRet
    /\ watch = NoWatch
    /\ inner = {}
    /\ \E o \in TestOptions : cache = MyLRUCache(o) /\ asked = AskedTtl(o)
    /\ recency = <<>>
    /\ trace = <<>>
    /\ written = <<>>

T_has(k) ==
    LET c == has_after(cache, k, now) IN
    /\ cache' = c
    /\ recency' = Used(recency, k, FALSE, c)
    /\ trace' = Traced(trace, Op("has", k, Undefined))
    /\ written' = Sets(written, c)
    /\ UNCHANGED <<now, asked, svcVars>>

T_get(k) ==
    LET g == get(cache, k, now) IN
    /\ cache' = g.c
    /\ recency' = Used(recency, k, g.v # Undefined, g.c)
    /\ trace' = Traced(trace, Op("get", k, Undefined))
    /\ written' = Sets(written, g.c)
    /\ UNCHANGED <<now, asked, svcVars>>

T_set(k, v) ==
    LET c == set(cache, k, v, now) IN
    /\ cache' = c
    /\ recency' = Used(recency, k, TRUE, c)
    /\ trace' = Traced(trace, Op("set", k, v))
    /\ written' = Sets([x \in DOMAIN written \cup {k} |->
                           IF x = k THEN [v |-> v, at |-> now] ELSE written[x]],
                       c)
    /\ UNCHANGED <<now, asked, svcVars>>

Tick ==
    /\ now < 1 + MaxTicks
    /\ now' = now + 1
    /\ trace' = Off
    /\ UNCHANGED <<cache, recency, written, asked, svcVars>>

CacheNext ==
    \/ \E k \in TestKeys : T_has(k)
    \/ \E k \in TestKeys : T_get(k)
    \/ \E k \in TestKeys, v \in TestValues : T_set(k, v)
    \/ Tick

CacheSpec == CacheInit /\ [][CacheNext]_vars

-----------------------------------------------------------------------------
(* Properties of the service (Spec) *)

\* a step in which lookup p starts its remote call
Fetches(p) == lookup[p].pc = "idle" /\ lookup'[p].pc = "fetch"

\* a step in which a lookup returns to its caller
Returns == ret = NoRet /\ ret' # NoRet

\* the lookup that has just returned was for the followed entry
OfWatched(r) == r.fn = Watched.fn /\ r.arg = Str(Watched.k)

\* C1 as stated: once a lookup for K has completed with a successful fetch
\* of a non-empty record R, every later lookup for K made before K is
\* evicted or expires returns R.  (K is the followed key; now = 1 keeps
\* the lookup inside the freshness window; the lookups that return an
\* empty record are left out.)
C1_Original ==
    (ret.path = "hit" /\ OfWatched(ret) /\ watch.first # Undefined /\ now = 1
        /\ ret.value \in Records)
        => ret.value = watch.first

\* C1 as amended: a lookup for a key K that the cache holds starts no
\* remote call and returns the record most recently written for K, which
\* is R unless a lookup for K that was in flight has completed since and
\* overwritten it.
C1_ReadThroughHit ==
    [][/\ \A p \in Procs :
            Fetches(p) =>
                lookup'[p].key \notin Keys(caches[CacheOf(lookup'[p].fn)])
       /\ (Returns /\ ret'.path = "hit") =>
            /\ lookup' = lookup
            /\ ret'.value = ValueOf(caches[CacheOf(ret'.fn)], ret'.arg.s)
            /\ OfWatched(ret') => ret'.value = watch.last]_vars

C1_Witness ==
    /\ ret.path = "hit" /\ OfWatched(ret)
    /\ ret.value \in Records
    /\ watch.first \in Records /\ watch.last = ret.value

\* C2: each of the two caches holds at most max entries, in every
\* reachable state.
C2_Capacity ==
    \A w \in CacheNames :
        /\ Size(caches[w]) <= Max
        /\ Cardinality(Keys(caches[w])) = Size(caches[w])

\* a set at capacity has just pushed an entry out
C2_Witness ==
    /\ ret.path = "remote" /\ ret.evicted # ""
    /\ Size(caches[CacheOf(ret.fn)]) = Max

\* C5 as stated: in the service's caches an entry set at time T is visible
\* to has and get before T + ttl and absent for them after T + ttl, ttl
\* being five minutes.  (Stated of the followed entry while its cache
\* holds it.)
C5_Freshness ==
    watch.at # 0 =>
        LET c == caches[Watched.w]
            k == Watched.k
        IN /\ now < watch.at + FiveMinutes =>
                (has(c, k, now) /\ get(c, k, now).v # Undefined)
           /\ now > watch.at + FiveMinutes =>
                (~has(c, k, now) /\ get(c, k, now).v = Undefined)

\* C6 as stated: a lookup for K made more than ttl after the lookup that
\* last cached K is not answered from the cache.
C6_ExpiryRefetch ==
    (ret.path = "hit" /\ OfWatched(ret) /\ watch.at # 0)
        => now <= watch.at + FiveMinutes

\* C7: a lookup that finds has(key) true returns get(key), which is never
\* undefined, and starts no remote call; a lookup starts a remote call only
\* when has(key) is false.
C7_HitPath ==
    [][/\ (Returns /\ ret'.path = "hit") =>
            LET c == caches[CacheOf(ret'.fn)]
                k == ret'.arg.s
            IN /\ k \in Keys(c)
               /\ ret'.value = ValueOf(c, k)
               /\ ret'.value # Undefined
               /\ lookup' = lookup
       /\ \A p \in Procs :
            Fetches(p) =>
                ~has(caches[CacheOf(lookup'[p].fn)], lookup'[p].key, now)]_vars

\* a hit while another lookup is in flight for the same key
C7_Witness ==
    /\ ret.path = "hit" /\ ret.value # Undefined
    /\ \E p \in Procs : /\ lookup[p].pc = "json"
                        /\ lookup[p].fn = ret.fn
                        /\ lookup[p].key = ret.arg.s

\* the arguments that are keys: well-formed emails for fetchUserByEmail,
\* non-empty strings for fetchUserByUserId
ValidArg(fn, arg) ==
    /\ arg.t = "string"
    /\ IF fn = "fetchUserByEmail" THEN arg.s \in {"a@x.io", "b@x.io"}
                                  ELSE arg.s # ""

\* C8: a lookup called with an invalid key returns the absence result
\* (null), starts no remote call and leaves both caches as they are,
\* recency order included.
C8_InvalidKey ==
    [][/\ \A p \in Procs :
            Fetches(p) => ValidArg(lookup'[p].fn, Str(lookup'[p].key))
       /\ (Returns /\ ~ValidArg(ret'.fn, ret'.arg)) =>
            /\ ret'.value = Null
            /\ ret'.path = "invalid"
            /\ caches' = caches
            /\ lookup' = lookup]_vars

\* an invalid call returned while both caches hold entries
C8_Witness ==
    /\ ret.path = "invalid" /\ ret.value = Null
    /\ \A w \in CacheNames : Size(caches[w]) > 0

\* the remote call failed: network error, a response that is not JSON or
\* does not parse, or a JSON body without a user field
NoUserField(json) ==
    json.t # "object" \/ ~\E f \in json.f : f[1] = "user"

Failed(o) ==
    \/ o.kind \in {"network", "notjson", "parse"}
    \/ o.kind = "json" /\ NoUserField(o.json)

\* C9 as stated: when the remote call of a lookup for K fails, has(K) is
\* false afterwards.  (The states in which K holds an empty record are
\* left out.)
C9_Original ==
    (ret.path = "remote" /\ Failed(ret.outcome))
        => LET c == caches[CacheOf(ret.fn)]
           IN ~(has(c, ret.arg.s, now) /\ ValueOf(c, ret.arg.s) \in Records)

\* C9 as amended: a lookup whose remote call fails writes nothing, both
\* caches are as they were before it returned, and a lookup is answered
\* from the cache only for a key the cache holds; so the next lookup for K
\* goes to the remote again unless another lookup has cached K meanwhile.
C9_FailedFetchNotCached ==
    [][/\ (Returns /\ ret'.path = "remote" /\ Failed(ret'.outcome)) =>
            /\ caches' = caches
            /\ ret'.value \in {Null, EmptyObject}
       /\ (Returns /\ ret'.path = "hit") =>
            ret'.arg.s \in Keys(caches[CacheOf(ret'.fn)])]_vars

\* a failed lookup has returned and its key is not cached
C9_Witness ==
    /\ ret.path = "remote" /\ Failed(ret.outcome)
    /\ ret.arg.s \notin Keys(caches[CacheOf(ret.fn)])

\* C10 as stated: no cache entry holds an empty record.
C10_NoEmptyRecord ==
    \A w \in CacheNames :
        \A k \in Keys(caches[w]) : NumKeys(ValueOf(caches[w], k)) > 0

\* C11: a lookup that went to the remote completes with a returned value,
\* never with a thrown error, however the remote call ended: network
\* error, rejected body parse, another content type, a body without user.
C11_NeverThrows ==
    ret.path = "remote" =>
        /\ ret.value.t # "thrown"
        /\ Failed(ret.outcome) => ret.value \in {Null, EmptyObject}

\* the body parsed to null, json.user threw, and null was returned
C11_Witness ==
    /\ ret.path = "remote"
    /\ ret.outcome = Outcome("json", Null)
    /\ ret.value = Null

\* C12: the two caches are disjoint states.  A lookup reads and writes
\* only the cache of its own key space: a hit of fetchUserByUserId(S)
\* returns what caches.userByUserId holds for S, whatever
\* caches.userByEmail holds for S, and the reverse; a lookup leaves the
\* other cache as it is, recency order included.
C12_KeySpaceIsolation ==
    [][/\ ~Returns => caches' = caches
       /\ (Returns /\ ret'.fn = "fetchUserByEmail") =>
            /\ caches'.userByUserId = caches.userByUserId
            /\ ret'.path = "hit" =>
                 /\ ret'.arg.s \in Keys(caches.userByEmail)
                 /\ ret'.value = ValueOf(caches.userByEmail, ret'.arg.s)
       /\ (Returns /\ ret'.fn = "fetchUserByUserId") =>
            /\ caches'.userByEmail = caches.userByEmail
            /\ ret'.path = "hit" =>
                 /\ ret'.arg.s \in Keys(caches.userByUserId)
                 /\ ret'.value = ValueOf(caches.userByUserId, ret'.arg.s)]_vars

\* fetchUserByUserId(S) went to the remote and cached its own record while
\* the email cache held another record under the same string S
C12_Witness ==
    /\ ret.fn = "fetchUserByUserId" /\ ret.path = "remote"
    /\ ret.arg.s \in Keys(caches.userByEmail)
    /\ ret.arg.s \in Keys(caches.userByUserId)
    /\ ValueOf(caches.userByEmail, ret.arg.s) \in Records
    /\ ret.value \in Records
    /\ ret.value # ValueOf(caches.userByEmail, ret.arg.s)

\* lookup p receives a JSON body that carries a user record
Receives(p) ==
    /\ lookup[p].pc = "json" /\ lookup'[p].pc = "idle"
    /\ ret'.outcome.kind = "json"
    /\ ret'.outcome.json.t = "object"
    /\ Field(ret'.outcome.json, "user") \in Records

\* C17: lookups for the same key are not coalesced.  A lookup that starts
\* its remote call leaves every lookup in flight as it is, and every
\* lookup that receives a record writes it under its key, whatever a
\* lookup that completed before it has written there.
C17_NoSingleFlight ==
    [][\A p \in Procs :
        /\ Fetches(p) =>
             /\ ~has(caches[CacheOf(lookup'[p].fn)], lookup'[p].key, now)
             /\ \A q \in Procs \ {p} : lookup'[q] = lookup[q]
        /\ Receives(p) =>
             LET c == caches'[CacheOf(lookup[p].fn)]
             IN /\ lookup[p].key \in Keys(c)
                /\ ValueOf(c, lookup[p].key) = Field(ret'.outcome.json, "user")
                /\ ret'.value = Field(ret'.outcome.json, "user")]_vars

\* within one instant two remote calls were made for the followed key:
\* one lookup has cached its record, the other, still in flight, started
\* before that
C17_Witness ==
    /\ now = 1
    /\ ret.path = "remote" /\ OfWatched(ret) /\ ret.value \in Records
    /\ \E p \in Procs : /\ lookup[p].pc \in {"fetch", "json"}
                        /\ lookup[p].fn = Watched.fn
                        /\ lookup[p].key = Watched.k

\* C20 as stated: a lookup whose remote call ends in a network error, in
\* a response that is not JSON or in a JSON body without a user field
\* returns the one empty-result marker, the empty object.
C20_OneMarker ==
    (ret.path = "remote" /\ Failed(ret.outcome)) => ret.value = EmptyObject

\* two lookups for the followed key were in flight together and both have
\* written their record: the second write replaced another record
Overwritten ==
    /\ watch.first \in Records /\ watch.last \in Records
    /\ watch.first # watch.last

\* the entries the cache w keeps for key k
EntriesOf(w, k) ==
    {i \in 1..Len(caches[w].list) : caches[w].list[i].k = k}

\* C21 as stated: after two lookups for K that were in flight together,
\* the cache holds for K the record of the lookup whose response was
\* processed last, in one entry, and the insertion time of that entry is
\* the time of that last set.
C21_LastCompletionWins ==
    (Overwritten /\ Watched.k \in Keys(caches[Watched.w])) =>
        LET c == caches[Watched.w]
            e == c.list[indexOf(c, Watched.k)]
        IN /\ e.v = watch.last
           /\ Cardinality(EntriesOf(Watched.w, Watched.k)) = 1
           /\ e.start = watch.at

\* the lookup each cache belongs to
LookupOf(w) ==
    IF w = "userByEmail" THEN "fetchUserByEmail" ELSE "fetchUserByUserId"

\* the lookup that has just returned received a JSON body and wrote an
\* entry for its key
Wrote(r) ==
    /\ r.path = "remote" /\ r.outcome.kind = "json"
    /\ r.outcome.json.t = "object"
    /\ cacheable(Field(r.outcome.json, "user"))

\* C23 as stated: every entry of a cache is under a key its lookup can be
\* called with, and the entry a lookup for K has just written holds,
\* under K, the user record of the JSON response that lookup received.
C23_Provenance ==
    /\ \A w \in CacheNames :
         \A k \in Keys(caches[w]) : ValidArg(LookupOf(w), Str(k))
    /\ Wrote(ret) =>
         LET c == caches[CacheOf(ret.fn)]
         IN /\ ret.arg.s \in Keys(c)
            /\ ValueOf(c, ret.arg.s) = Field(ret.outcome.json, "user")

-----------------------------------------------------------------------------
(* Properties of the service's other methods (ApiSpec, AliasSpec) *)

\* what the caches hold, recency order aside
Contents(cs) ==
    [w \in CacheNames |->
        {<<cs[w].list[i].k, cs[w].list[i].v>> : i \in 1..Len(cs[w].list)}]

\* a step of a putUserData call of p
Updates(p) ==
    \/ lookup'[p] # lookup[p] /\ "putUserData" \in {lookup[p].fn, lookup'[p].fn}
    \/ Returns /\ ret'.fn = "putUserData"

C18_StoredByValue ==
    [][(Returns /\ ret'.path = "hit" /\ OfWatched(ret')) =>
            ret'.value = watch.last]_vars

\* C19 as stated: fetchUserIdByEmail never completes with a thrown error,
\* whether the email is invalid or the remote call fails.
C19_IdNeverThrows ==
    ret.fn = "fetchUserIdByEmail" => ret.value.t # "thrown"

\* C22: a lookup answered from the cache makes no network call and
\* returns what the one module-level cache holds for the key, and the step
\* is the same whichever idle caller, that is whichever instance and API
\* key, makes the call; so a record fetched with one key is handed to a
\* caller whose instance was built with another.
C22_SharedAcrossInstances ==
    [][(Returns /\ ret'.path = "hit") =>
            LET c == caches[CacheOf(ret'.fn)]
            IN /\ lookup' = lookup
               /\ ret'.arg.s \in Keys(c)
               /\ ret'.value = ValueOf(c, ret'.arg.s)
               /\ \A q \in Procs :
                    lookup[q].pc = "idle" =>
                        Call(q, ret'.fn, ret'.arg, FALSE)]_vars

\* the caller of instance B (p1 is busy with another lookup) was handed,
\* from the cache, the record of project A, which its own project's
\* directory does not hold
C22_Witness ==
    /\ ret.path = "hit"
    /\ lookup["p1"].pc # "idle"
    /\ ret.value = Directory(apiKey("p1"))
    /\ ret.value # Directory(apiKey("p2"))

-----------------------------------------------------------------------------
(* Properties of MyLRUCache (CacheSpec) *)

\* C3: a set of an absent key into a full cache removes exactly one entry,
\* the one whose last use (set or successful get) is oldest; a set of a
\* present key overwrites its value and removes nothing.
C3_EvictionRule ==
    [][\A k \in TestKeys, v \in TestValues :
        T_set(k, v) =>
            /\ ValueOf(cache', k) = v
            /\ \A x \in Keys(cache') \ {k} :
                   x \in Keys(cache) /\ ValueOf(cache', x) = ValueOf(cache, x)
            /\ IF k \in Keys(cache)
                 THEN Keys(cache') = Keys(cache)
               ELSE IF Size(cache) = cache.max
                 THEN Keys(cache') = (Keys(cache) \ {Head(recency)}) \cup {k}
               ELSE Keys(cache') = Keys(cache) \cup {k}]_vars

\* b, inserted after a, is the entry pushed out: a was set again since
C3_Witness ==
    /\ trace = ScenarioOverwrite
    /\ Keys(cache) = {"a", "c"}
    /\ ValueOf(cache, "a") = Num(3)

\* C4: a successful get(key) makes key the most recently used entry; with
\* max = 2, set(a,1); set(b,2); get(a); set(c,3) leaves exactly {a:1, c:3}
\* and has(b) false.
C4_RecencyPromotion ==
    [][/\ \A k \in TestKeys :
            (T_get(k) /\ has(cache, k, now)) =>
                /\ Keys(cache') = Keys(cache)
                /\ cache'.list[Len(cache'.list)].k = k
       /\ (trace' = ScenarioPromote /\ cache.max = 2) =>
            /\ Keys(cache') = {"a", "c"}
            /\ ValueOf(cache', "a") = Num(1)
            /\ ValueOf(cache', "c") = Num(3)
            /\ ~has(cache', "b", now')]_vars

C4_Witness ==
    /\ trace = ScenarioPromote
    /\ cache.max = 2
    /\ ~has(cache, "b", now)

\* C13: after set(K, V), a second set(K, V) leaves the same set of keys
\* and the same size, and get(K) returns V; so set(a,1); set(a,1) leaves
\* one entry.
C13_IdempotentSet ==
    [][/\ \A k \in TestKeys, v \in TestValues :
            T_set(k, v) =>
                LET twice == set(cache', k, v, now')
                IN /\ Keys(twice) = Keys(cache')
                   /\ Size(twice) = Size(cache')
                   /\ get(twice, k, now').v = v
                   /\ get(cache', k, now').v = v
                   /\ (k \in Keys(cache) /\ written[k].v = v) =>
                        /\ Keys(cache') = Keys(cache)
                        /\ Size(cache') = Size(cache)
       /\ trace' = ScenarioTwice =>
            /\ Keys(cache') = {"a"}
            /\ Size(cache') = 1]_vars

C13_Witness ==
    /\ trace = ScenarioTwice
    /\ Size(cache) = 1
    /\ ValueOf(cache, "a") = Num(1)

\* the entry of k is younger than the time to live the cache was built
\* with, or as old
Unexpired(k) == asked = 0 \/ now - written[k].at <= asked

\* C14 as stated: has(key) is true exactly when the cache holds an
\* unexpired entry for key, exactly then get(key) returns a record, the
\* value of the last set(key, .), and get returns undefined otherwise.
C14_HasGetAgree ==
    \A k \in TestKeys :
        LET held == k \in Keys(cache) /\ Unexpired(k)
            g == get(cache, k, now).v
        IN /\ has(cache, k, now) <=> held
           /\ g # Undefined <=> held
           /\ held => g = written[k].v

\* C15: has(key) leaves the cache as it is, recency order included; with
\* max = 2, set(a,1); set(b,2); has(a); set(c,3) pushes a out.
C15_HasKeepsOrder ==
    [][/\ \A k \in TestKeys : T_has(k) => cache' = cache
       /\ (trace' = ScenarioHas /\ cache.max = 2) =>
            /\ Keys(cache') = {"b", "c"}
            /\ ~has(cache', "a", now')]_vars

C15_Witness ==
    /\ trace = ScenarioHas
    /\ cache.max = 2
    /\ Keys(cache) = {"b", "c"}

====
